---- MODULE Spec2Model ----
(***************************************************************************)
(* Model of IFCtoSCR.py: the mesh decoder (abstract_elements_by_type), the *)
(* two centerline idealizers (idealizeBeam, idealizeColumn), the line-set  *)
(* serializer (writeLines) and the orchestrator (process_file).            *)
(*                                                                         *)
(* Numbers.  A Python number is modelled as a record [n, d, f]: the exact  *)
(* value n/d in lowest terms (d > 0) and f = TRUE when the Python object   *)
(* is a float (f = FALSE: an int, then d = 1).  Within the bounds of the   *)
(* model every sum of coordinates is exact in binary floating point and a  *)
(* true division is the correctly rounded quotient, so the value of the    *)
(* float is identified with the rational it rounds.                        *)
(*                                                                         *)
(* Text.  A Python str is a sequence of one-character strings; a file is   *)
(* the sequence of the characters written to it.                           *)
(***************************************************************************)
EXTENDS Integers, Sequences, FiniteSets

VARIABLES
    pc,             \* position of the run that the specification drives
    elementLines,   \* idealizers: the argument (a list of segments)
    permuted,       \* idealizers: the same segments in another order
    beamResult,     \* outcome of idealizeBeam(elementLines)
    columnResult,   \* outcome of idealizeColumn(elementLines)
    beamPermuted,   \* outcome of idealizeBeam(permuted)
    columnPermuted, \* outcome of idealizeColumn(permuted)
    ifc_values,     \* decoder: the argument (a list of elements)
    lines_for_type, \* decoder: outcome of abstract_elements_by_type(ifc_values)
    doubled,        \* decoder: outcome on the edge buffers with every pair doubled
    lines,          \* writeLines: the argument (a list of segments)
    fs,             \* the file system: file name -> characters of the file
    geometry,       \* process_file: what read_geom returned
    beams,          \* process_file: abstract_elements_by_type(ifc_beams)
    columns,        \* process_file: abstract_elements_by_type(ifc_columns)
    written         \* process_file: number of elements whose loop body has run

vars == <<pc, elementLines, permuted, beamResult, columnResult, beamPermuted,
          columnPermuted, ifc_values, lines_for_type, doubled, lines, fs,
          geometry, beams, columns, written>>

NoValue == "none"

-----------------------------------------------------------------------------
(* Bounds *)

\* longest argument list of the idealizers
MaxLines == 3
\* longest argument list of writeLines
MaxSegments == 2
\* longest vertex buffer of the decoder
MaxVertexLen == 9
\* longest edge-index buffer of the decoder
MaxEdgeLen == 4
\* most elements of one type in a model file
MaxElements == 2

-----------------------------------------------------------------------------
(* Python numbers *)

Abs(k) == IF k < 0 THEN -k ELSE k

RECURSIVE GCD(_, _)
GCD(a, b) == IF b = 0 THEN a ELSE GCD(b, a % b)

\* the number n/d (d > 0) in lowest terms
Num(n, d, f) ==
    LET g == GCD(Abs(n), d)
    IN  [n |-> n \div g, d |-> d \div g, f |-> f]

IntNum(k) == [n |-> k, d |-> 1, f |-> FALSE]
FloatNum(n, d) == Num(n, d, TRUE)

\* a + b
NumAdd(a, b) == Num(a.n * b.d + b.n * a.d, a.d * b.d, a.f \/ b.f)
\* a - b
NumSub(a, b) == Num(a.n * b.d - b.n * a.d, a.d * b.d, a.f \/ b.f)
\* a ** 2
NumSquare(a) == Num(a.n * a.n, a.d * a.d, a.f)
\* a / k for an int k > 0: true division, always a float
NumTrueDiv(a, k) == Num(a.n, a.d * k, TRUE)
\* a == b: Python compares values, 1 == 1.0
NumEq(a, b) == a.n * b.d = b.n * a.d
\* a > b
NumGreater(a, b) == a.n * b.d > b.n * a.d

\* max(zs) of a non-empty list: the first of the largest items
RECURSIVE PyMax(_)
PyMax(zs) ==
    IF Len(zs) = 1 THEN zs[1]
    ELSE LET m == PyMax(SubSeq(zs, 1, Len(zs) - 1))
         IN  IF NumGreater(zs[Len(zs)], m) THEN zs[Len(zs)] ELSE m

\* x in zs
PyIn(x, zs) == \E i \in 1..Len(zs) : NumEq(zs[i], x)

-----------------------------------------------------------------------------
(* Python text *)

DigitChars == <<"0", "1", "2", "3", "4", "5", "6", "7", "8", "9">>

\* decimal digits of a natural number
RECURSIVE NatStr(_)
NatStr(k) ==
    IF k < 10 THEN <<DigitChars[k + 1]>>
    ELSE NatStr(k \div 10) \o <<DigitChars[(k % 10) + 1]>>

\* digits of r/d (0 <= r < d) after the decimal point, for a terminating
\* expansion: the shortest decimal string that reads back as the float
RECURSIVE FracStr(_, _)
FracStr(r, d) ==
    IF r = 0 THEN <<>>
    ELSE <<DigitChars[((r * 10) \div d) + 1]>> \o FracStr((r * 10) % d, d)

\* repr of a number: str(int), or repr(float) for a float of moderate size
\* whose decimal expansion terminates
NumStr(x) ==
    LET a    == Abs(x.n)
        sign == IF x.n < 0 THEN <<"-">> ELSE <<>>
    IN  IF ~x.f THEN sign \o NatStr(a)
        ELSE sign \o NatStr(a \div x.d) \o <<".">> \o
             (IF a % x.d = 0 THEN <<"0">> ELSE FracStr(a % x.d, x.d))

\* str of a tuple of three numbers: "(x, y, z)"
PointStr(p) ==
    <<"(">> \o NumStr(p[1]) \o <<",", " ">> \o NumStr(p[2]) \o <<",", " ">>
            \o NumStr(p[3]) \o <<")">>

\* str of a tuple of two points: "((x, y, z), (x, y, z))"
SegmentStr(s) ==
    <<"(">> \o PointStr(s[1]) \o <<",", " ">> \o PointStr(s[2]) \o <<")">>

\* s.replace(old, new): every non-overlapping occurrence, left to right
RECURSIVE Replace(_, _, _)
Replace(s, old, new) ==
    IF Len(s) < Len(old) THEN s
    ELSE IF SubSeq(s, 1, Len(old)) = old
         THEN new \o Replace(SubSeq(s, Len(old) + 1, Len(s)), old, new)
         ELSE <<s[1]>> \o Replace(Tail(s), old, new)

-----------------------------------------------------------------------------
(* writeLines *)

HeaderText ==
    <<"z", "o", "o", "m", " ", "-", "1", "0", "0", ",", "-", "1", "0", "0", ",",
      "-", "1", "0", "0", " ", "-", "2", "0", "0", ",", "-", "2", "0", "0", ",",
      "-", "2", "0", "0", "\n">>

FooterText == <<"z", "o", "o", "m", " ", "a", "\n">>

\* FormatLine without its first replace, which strips the spaces of str(point)
FormatLineNoStrip(point) ==
    LET s1 == SegmentStr(point)
        s2 == <<"l", "i", "n", "e", " ">> \o s1 \o <<" ", "\n">>
        s3 == Replace(s2, <<")", ",", "(">>, <<" ">>)
        s4 == Replace(s3, <<"(">>, <<>>)
    IN  Replace(s4, <<")">>, <<>>)

\* the body of the loop of writeLines: the text written for one segment
FormatLine(point) ==
    LET s1 == Replace(SegmentStr(point), <<" ">>, <<>>)
        s2 == <<"l", "i", "n", "e", " ">> \o s1 \o <<" ", "\n">>
        s3 == Replace(s2, <<")", ",", "(">>, <<" ">>)
        s4 == Replace(s3, <<"(">>, <<>>)
    IN  Replace(s4, <<")">>, <<>>)

RECURSIVE FormatLines(_)
FormatLines(ls) ==
    IF ls = <<>> THEN <<>>
    ELSE FormatLine(Head(ls)) \o FormatLines(Tail(ls))

\* the text one call of writeLines writes
WrittenText(ls) == HeaderText \o FormatLines(ls) \o FooterText

\* the file system after writeLines(ls, file_name, mode)
writeLines(files, ls, file_name, mode) ==
    [files EXCEPT ![file_name] =
        IF mode = "w" THEN WrittenText(ls) ELSE @ \o WrittenText(ls)]

-----------------------------------------------------------------------------
(* Outcome of a call: a returned value or a raised exception *)

Return(v) == [kind |-> "return", value |-> v]
Raise(e) == [kind |-> "raise", exc |-> e]

-----------------------------------------------------------------------------
(* idealizeBeam *)

\* calcLength returns the square root of a sum of squares.  It is kept as
\* the exact radicand: the radicands compared in idealizeBeam are multiples
\* of 1/4 of moderate size, on which the floating-point square root is
\* strictly increasing, so two lengths compare as their radicands do.
calcLength(line) ==
    [sqrtOf |-> NumAdd(NumAdd(NumSquare(NumSub(line[1][1], line[2][1])),
                              NumSquare(NumSub(line[1][2], line[2][2]))),
                       NumSquare(NumSub(line[1][3], line[2][3])))]

LengthGreater(a, b) == NumGreater(a.sqrtOf, b.sqrtOf)

calcMidPoint(line) ==
    <<NumTrueDiv(NumAdd(line[1][1], line[2][1]), 2),
      NumTrueDiv(NumAdd(line[1][2], line[2][2]), 2),
      NumTrueDiv(NumAdd(line[1][3], line[2][3]), 2)>>

\* zs of idealizeBeam: the z of both endpoints of every line, in order
RECURSIVE BeamZs(_)
BeamZs(ls) ==
    IF ls = <<>> THEN <<>>
    ELSE <<Head(ls)[1][3], Head(ls)[2][3]>> \o BeamZs(Tail(ls))

\* the placeholder idealBeam starts from: ((0., 0., 0.), (0., 0., 0.))
ZeroBeam ==
    <<<<FloatNum(0, 1), FloatNum(0, 1), FloatNum(0, 1)>>,
      <<FloatNum(0, 1), FloatNum(0, 1), FloatNum(0, 1)>>>>

\* the nested loops of idealizeBeam from (i, j) on: j runs over i..len-1,
\* and a candidate replaces idealBeam only when strictly longer
RECURSIVE BeamLoop(_, _, _, _)
BeamLoop(topLines, i, j, idealBeam) ==
    IF i > Len(topLines) THEN idealBeam
    ELSE IF j > Len(topLines) THEN BeamLoop(topLines, i + 1, i + 1, idealBeam)
    ELSE LET candidate == <<calcMidPoint(topLines[i]), calcMidPoint(topLines[j])>>
         IN  BeamLoop(topLines, i, j + 1,
                      IF LengthGreater(calcLength(candidate), calcLength(idealBeam))
                      THEN candidate ELSE idealBeam)

idealizeBeam(ls) ==
    IF ls = <<>> THEN Raise("ValueError")    \* max() of an empty list
    ELSE LET z_max    == PyMax(BeamZs(ls))
             IsTop(l) == NumEq(l[1][3], z_max) /\ NumEq(l[2][3], z_max)
             topLines == SelectSeq(ls, IsTop)
         IN  Return(BeamLoop(topLines, 1, 1, ZeroBeam))

-----------------------------------------------------------------------------
(* idealizeColumn *)

\* the running sum of calcAvgPoint for coordinate c, started from the int 0
RECURSIVE SumCoord(_, _)
SumCoord(ls, c) ==
    IF ls = <<>> THEN IntNum(0)
    ELSE NumAdd(SumCoord(SubSeq(ls, 1, Len(ls) - 1), c),
                NumAdd(ls[Len(ls)][1][c], ls[Len(ls)][2][c]))

\* calcAvgPoint dividing by len(lines) instead of len(lines)*2
calcAvgPointHalved(ls) ==
    IF ls = <<>> THEN Raise("ZeroDivisionError")
    ELSE Return(<<NumTrueDiv(SumCoord(ls, 1), Len(ls)),
                  NumTrueDiv(SumCoord(ls, 2), Len(ls)),
                  NumTrueDiv(SumCoord(ls, 3), Len(ls))>>)

\* calcAvgPoint: two samples per line; an empty list divides by zero
calcAvgPoint(ls) ==
    IF ls = <<>> THEN Raise("ZeroDivisionError")
    ELSE Return(<<NumTrueDiv(SumCoord(ls, 1), Len(ls) * 2),
                  NumTrueDiv(SumCoord(ls, 2), Len(ls) * 2),
                  NumTrueDiv(SumCoord(ls, 3), Len(ls) * 2)>>)

IsInteresting(l) == NumEq(l[1][3], l[2][3])

\* zs of idealizeColumn: the distinct z of the interesting lines, in order
RECURSIVE ColumnZs(_)
ColumnZs(ls) ==
    IF ls = <<>> THEN <<>>
    ELSE LET before == ColumnZs(SubSeq(ls, 1, Len(ls) - 1))
             l      == ls[Len(ls)]
         IN  IF IsInteresting(l) /\ ~PyIn(l[1][3], before)
             THEN Append(before, l[1][3]) ELSE before

idealizeColumn(ls) ==
    LET zs               == ColumnZs(ls)
        interestingLines == SelectSeq(ls, IsInteresting)
        IsTop(l)         == NumEq(l[1][3], PyMax(zs))
        IsBottom(l)      == ~IsTop(l)
        topLines         == SelectSeq(interestingLines, IsTop)
        bottomLines      == SelectSeq(interestingLines, IsBottom)
        bottom           == calcAvgPoint(bottomLines)
        top              == calcAvgPoint(topLines)
    IN  IF bottom.kind = "raise" THEN bottom
        ELSE IF top.kind = "raise" THEN top
        ELSE Return(<<bottom.value, top.value>>)

-----------------------------------------------------------------------------
(* abstract_elements_by_type *)

\* points: the consecutive triples of the vertex buffer; entries after the
\* last whole triple are left out by range(len // 3)
Points(vertices) ==
    [i \in 1..(Len(vertices) \div 3) |->
        <<vertices[3 * i - 2], vertices[3 * i - 1], vertices[3 * i]>>]

\* line_points before the set(): the consecutive pairs of the edge buffer
LinePoints(edges) ==
    [i \in 1..(Len(edges) \div 2) |-> <<edges[2 * i - 1], edges[2 * i]>>]

\* every enumeration of a set as a list
RECURSIVE Enumerations(_)
Enumerations(S) ==
    IF S = {} THEN {<<>>}
    ELSE UNION {{<<x>> \o r : r \in Enumerations(S \ {x})} : x \in S}

\* line_points kept as it is, duplicates included
KeepAll(line_points) == {line_points}

\* list(set(line_points)): the distinct pairs, in an order that the hash
\* table decides, so in any order
ListOfSet(line_points) ==
    Enumerations({line_points[i] : i \in 1..Len(line_points)})

\* whether points[k] exists, for a list of n points and an int k
IndexExists(n, k) == -n <= k /\ k < n

\* points[k]: a negative k counts from the end of the list
PyIndex(points, k) ==
    IF k >= 0 THEN points[k + 1] ELSE points[Len(points) + k + 1]

\* the outcomes of one pass of the loop body, for one element
DecodeElement(vertices, edges) ==
    LET points == Points(vertices)
        orders == ListOfSet(LinePoints(edges))
        Resolve(line_points) ==
            IF \E i \in 1..Len(line_points), e \in {1, 2} :
                  ~IndexExists(Len(points), line_points[i][e])
            THEN Raise("IndexError")
            ELSE Return([i \in 1..Len(line_points) |->
                            <<PyIndex(points, line_points[i][1]),
                              PyIndex(points, line_points[i][2])>>])
    IN  {Resolve(line_points) : line_points \in orders}

\* the outcomes of abstract_elements_by_type on a list of elements, each a
\* record of its vertex buffer and its edge buffer: the lines of every
\* element in the order of the keys, or the first exception raised.  (The
\* keys of the result, "UUID: <key> Tag:<tag>", only label the elements.)
RECURSIVE abstract_elements_by_type(_)
abstract_elements_by_type(elements) ==
    IF elements = <<>> THEN {Return(<<>>)}
    ELSE LET n      == Len(elements)
             before == abstract_elements_by_type(SubSeq(elements, 1, n - 1))
             last   == DecodeElement(elements[n].vertices, elements[n].edges)
         IN  {IF b.kind = "raise" THEN b
              ELSE IF l.kind = "raise" THEN l
              ELSE Return(Append(b.value, l.value)) : b \in before, l \in last}

-----------------------------------------------------------------------------
(* Arguments of the idealizers *)

P(x, y, z) == <<IntNum(x), IntNum(y), IntNum(z)>>

\* every list of at most n items of S
RECURSIVE ListsUpTo(_, _)
ListsUpTo(S, n) ==
    IF n = 0 THEN {<<>>}
    ELSE LET shorter == ListsUpTo(S, n - 1)
         IN  shorter \cup {Append(l, x) : l \in shorter, x \in S}

\* every reordering of a list
RECURSIVE Orderings(_)
Orderings(l) ==
    IF l = <<>> THEN {<<>>}
    ELSE UNION {{<<l[i]>> \o r :
                   r \in Orderings(SubSeq(l, 1, i - 1) \o SubSeq(l, i + 1, Len(l)))} :
                i \in 1..Len(l)}

\* corner points of a beam: a top face at z = 10 and two points at z = 0
BeamPoints ==
    {P(0, 0, 10), P(4, 0, 10), P(0, 2, 10), P(4, 2, 10), P(0, 0, 0), P(4, 0, 0)}

\* points of a column on three levels
ColumnPoints ==
    {P(0, 0, 0), P(2, 0, 0), P(0, 0, 5), P(2, 0, 5), P(0, 2, 10)}

BeamSegments == BeamPoints \X BeamPoints
ColumnSegments == ColumnPoints \X ColumnPoints

IdealizersIdle ==
    /\ elementLines = <<>> /\ permuted = NoValue
    /\ beamResult = NoValue /\ columnResult = NoValue
    /\ beamPermuted = NoValue /\ columnPermuted = NoValue

DecoderIdle ==
    ifc_values = NoValue /\ lines_for_type = NoValue /\ doubled = NoValue

WriterIdle == lines = <<>>

ProcessIdle ==
    geometry = NoValue /\ beams = NoValue /\ columns = NoValue /\ written = 0

-----------------------------------------------------------------------------
(* Specification of idealizeBeam: one call on a bounded argument *)

InitBeam ==
    /\ pc = "start"
    /\ elementLines \in ListsUpTo(BeamSegments, MaxLines)
    /\ permuted = NoValue
    /\ beamResult = NoValue /\ columnResult = NoValue
    /\ beamPermuted = NoValue /\ columnPermuted = NoValue
    /\ DecoderIdle /\ WriterIdle /\ ProcessIdle /\ fs = NoValue

CallIdealizeBeam ==
    /\ pc = "start"
    /\ beamResult' = idealizeBeam(elementLines)
    /\ pc' = "done"
    /\ UNCHANGED <<elementLines, permuted, columnResult, beamPermuted,
                   columnPermuted, ifc_values, lines_for_type, doubled, lines,
                   fs, geometry, beams, columns, written>>

SpecBeam == InitBeam /\ [][CallIdealizeBeam]_vars

-----------------------------------------------------------------------------
(* Specification of idealizeColumn: one call on a bounded argument *)

InitColumn ==
    /\ pc = "start"
    /\ elementLines \in ListsUpTo(ColumnSegments, MaxLines)
    /\ permuted = NoValue
    /\ beamResult = NoValue /\ columnResult = NoValue
    /\ beamPermuted = NoValue /\ columnPermuted = NoValue
    /\ DecoderIdle /\ WriterIdle /\ ProcessIdle /\ fs = NoValue

CallIdealizeColumn ==
    /\ pc = "start"
    /\ columnResult' = idealizeColumn(elementLines)
    /\ pc' = "done"
    /\ UNCHANGED <<elementLines, permuted, beamResult, beamPermuted,
                   columnPermuted, ifc_values, lines_for_type, doubled, lines,
                   fs, geometry, beams, columns, written>>

SpecColumn == InitColumn /\ [][CallIdealizeColumn]_vars

-----------------------------------------------------------------------------
(* Specification of the idealizers on a list and on a reordering of it *)

InitOrder == InitBeam

\* the decoder hands the segments over in another order
Shuffle ==
    /\ pc = "start"
    /\ permuted' \in Orderings(elementLines)
    /\ pc' = "shuffled"
    /\ UNCHANGED <<elementLines, beamResult, columnResult, beamPermuted,
                   columnPermuted, ifc_values, lines_for_type, doubled, lines,
                   fs, geometry, beams, columns, written>>

IdealizeBeams ==
    /\ pc = "shuffled"
    /\ beamResult' = idealizeBeam(elementLines)
    /\ beamPermuted' = idealizeBeam(permuted)
    /\ pc' = "beams"
    /\ UNCHANGED <<elementLines, permuted, columnResult, columnPermuted,
                   ifc_values, lines_for_type, doubled, lines, fs, geometry,
                   beams, columns, written>>

IdealizeColumns ==
    /\ pc = "beams"
    /\ columnResult' = idealizeColumn(elementLines)
    /\ columnPermuted' = idealizeColumn(permuted)
    /\ pc' = "done"
    /\ UNCHANGED <<elementLines, permuted, beamResult, beamPermuted,
                   ifc_values, lines_for_type, doubled, lines, fs, geometry,
                   beams, columns, written>>

NextOrder == Shuffle \/ IdealizeBeams \/ IdealizeColumns

SpecOrder == InitOrder /\ [][NextOrder]_vars

-----------------------------------------------------------------------------
(* What the idealizers are specified to compute, stated without their loops *)

\* squared distance of two points
Dist2(p, q) ==
    NumAdd(NumAdd(NumSquare(NumSub(p[1], q[1])), NumSquare(NumSub(p[2], q[2]))),
           NumSquare(NumSub(p[3], q[3])))

\* the point halfway between the endpoints of a segment
MidOf(l) ==
    <<Num(l[1][1].n * l[2][1].d + l[2][1].n * l[1][1].d, 2 * l[1][1].d * l[2][1].d, TRUE),
      Num(l[1][2].n * l[2][2].d + l[2][2].n * l[1][2].d, 2 * l[1][2].d * l[2][2].d, TRUE),
      Num(l[1][3].n * l[2][3].d + l[2][3].n * l[1][3].d, 2 * l[1][3].d * l[2][3].d, TRUE)>>

\* the z of the endpoints of a list of segments
EndZs(ls) == {ls[i][e][3] : i \in 1..Len(ls), e \in {1, 2}}

\* positions of the top lines: both endpoints at the largest z of all
TopLineIdx(ls) ==
    {i \in 1..Len(ls) :
        \A z \in EndZs(ls) : ~NumGreater(z, ls[i][1][3]) /\ ~NumGreater(z, ls[i][2][3])}

\* positions of the horizontal segments, and their z levels
HorizontalIdx(ls) == {i \in 1..Len(ls) : NumEq(ls[i][1][3], ls[i][2][3])}
Levels(ls) == {ls[i][1][3] : i \in HorizontalIdx(ls)}

\* positions of the horizontal segments on the highest level
TopLevelIdx(ls) ==
    {i \in HorizontalIdx(ls) : \A z \in Levels(ls) : ~NumGreater(z, ls[i][1][3])}

\* sum of coordinate c over both endpoints of the segments at positions I
RECURSIVE EndpointSum(_, _, _)
EndpointSum(ls, I, c) ==
    IF I = {} THEN IntNum(0)
    ELSE LET i == CHOOSE k \in I : TRUE
         IN  NumAdd(NumAdd(ls[i][1][c], ls[i][2][c]), EndpointSum(ls, I \ {i}, c))

\* average of the endpoints of the segments at positions I (I not empty)
EndpointAverage(ls, I) ==
    [c \in 1..3 |->
        LET t == EndpointSum(ls, I, c)
        IN  Num(t.n, t.d * 2 * Cardinality(I), TRUE)]

\* two segments with the same endpoints, in either order
SameSegment(a, b) == a = b \/ (a[1] = b[2] /\ a[2] = b[1])

-----------------------------------------------------------------------------
(* Claims about idealizeBeam *)

BeamExample ==
    <<<<P(0, 0, 10), P(4, 0, 10)>>, <<P(0, 2, 10), P(4, 2, 10)>>,
      <<P(0, 0, 0), P(4, 0, 0)>>>>

\* C1: on every non-empty list idealizeBeam returns a segment joining the
\* midpoints of two top lines (possibly the same line twice), no other pair
\* of top-line midpoints is farther apart, and on the example with top lines
\* ((0,0,10),(4,0,10)) and ((0,2,10),(4,2,10)) it returns ((2,0,10),(2,2,10)).
C1_BeamJoinsFarthestTopMidpoints ==
    (pc = "done" /\ elementLines # <<>>) =>
        /\ beamResult.kind = "return"
        /\ \E i, j \in TopLineIdx(elementLines) :
              /\ beamResult.value = <<MidOf(elementLines[i]), MidOf(elementLines[j])>>
              /\ \A k, l \in TopLineIdx(elementLines) :
                    ~NumGreater(Dist2(MidOf(elementLines[k]), MidOf(elementLines[l])),
                                Dist2(beamResult.value[1], beamResult.value[2]))
        /\ (elementLines = BeamExample =>
              beamResult.value =
                  <<<<FloatNum(2, 1), FloatNum(0, 1), FloatNum(10, 1)>>,
                    <<FloatNum(2, 1), FloatNum(2, 1), FloatNum(10, 1)>>>>)

\* C5: on every non-empty list without top lines idealizeBeam fails with an
\* IdealizationError and does not return the zero-length placeholder.
C5_BeamWithoutTopLinesFails ==
    (pc = "done" /\ elementLines # <<>> /\ TopLineIdx(elementLines) = {}) =>
        /\ beamResult = Raise("IdealizationError")
        /\ beamResult # Return(ZeroBeam)

-----------------------------------------------------------------------------
(* Claims about idealizeColumn *)

ColumnExample ==
    <<<<P(0, 0, 0), P(2, 0, 0)>>, <<P(0, 0, 5), P(2, 0, 5)>>>>

\* C2: when the horizontal segments lie on at least two z levels,
\* idealizeColumn returns (B, T): T the average of the endpoints of the
\* horizontal segments on the highest level, B the average of the endpoints
\* of all other horizontal segments, two samples per segment; segments that
\* are not horizontal play no part; the example gives ((1,0,0),(1,0,5)).
C2_ColumnAveragesBottomAndTop ==
    (pc = "done" /\ Cardinality(Levels(elementLines)) >= 2) =>
        /\ columnResult =
              Return(<<EndpointAverage(elementLines,
                           HorizontalIdx(elementLines) \ TopLevelIdx(elementLines)),
                       EndpointAverage(elementLines, TopLevelIdx(elementLines))>>)
        /\ (elementLines = ColumnExample =>
              columnResult.value =
                  <<<<FloatNum(1, 1), FloatNum(0, 1), FloatNum(0, 1)>>,
                    <<FloatNum(1, 1), FloatNum(0, 1), FloatNum(5, 1)>>>>)

\* a call on two levels of horizontal segments and a segment that is not
\* horizontal has returned
C2_Witness ==
    /\ pc = "done"
    /\ Cardinality(Levels(elementLines)) >= 2
    /\ HorizontalIdx(elementLines) # 1..Len(elementLines)
    /\ columnResult.kind = "return"

\* C6: idealizeColumn fails with an IdealizationError, and with nothing
\* else, on every list without horizontal segments and on every list whose
\* horizontal segments all lie on one level.
C6_ColumnWithoutTwoLevelsFails ==
    (pc = "done" /\ Cardinality(Levels(elementLines)) <= 1) =>
        columnResult = Raise("IdealizationError")

-----------------------------------------------------------------------------
(* Claims about the order of the segments *)

SameOutcome(a, b) ==
    \/ a = b
    \/ a.kind = "return" /\ b.kind = "return" /\ SameSegment(a.value, b.value)

\* C10: the idealizers return the same segment on a list and on every
\* reordering of it.  The segments are compared up to the order of their
\* endpoints, so only a different pair of points counts as a difference.
C10_IdealizersIgnoreOrder ==
    pc = "done" =>
        /\ SameOutcome(beamResult, beamPermuted)
        /\ SameOutcome(columnResult, columnPermuted)

-----------------------------------------------------------------------------
(* Specification of abstract_elements_by_type: one call on one element, *)
(* and one on the same element with every pair of its edge buffer doubled *)

\* vertex buffers: floats, all equal (k = 0) or varying (k = 1, 2)
VertexBuffers ==
    {[i \in 1..len |-> FloatNum((i * k) % 5, 1)] : k \in 0..2, len \in 0..MaxVertexLen}

\* edge indices: in range for three points (0..2), negative, and out of range
EdgeIndices == -4..3

EdgeBuffers == ListsUpTo(EdgeIndices, MaxEdgeLen)

\* the edge buffer with every whole pair written twice
RECURSIVE DoublePairs(_)
DoublePairs(edges) ==
    IF Len(edges) < 2 THEN edges
    ELSE <<edges[1], edges[2], edges[1], edges[2]>>
         \o DoublePairs(SubSeq(edges, 3, Len(edges)))

InitDecode ==
    /\ pc = "start"
    /\ \E v \in VertexBuffers, e \in EdgeBuffers :
          ifc_values = <<[vertices |-> v, edges |-> e]>>
    /\ lines_for_type = NoValue /\ doubled = NoValue
    /\ IdealizersIdle /\ WriterIdle /\ ProcessIdle /\ fs = NoValue

CallAbstract ==
    /\ pc = "start"
    /\ lines_for_type' \in abstract_elements_by_type(ifc_values)
    /\ pc' = "decoded"
    /\ UNCHANGED <<elementLines, permuted, beamResult, columnResult,
                   beamPermuted, columnPermuted, ifc_values, doubled, lines, fs,
                   geometry, beams, columns, written>>

CallAbstractDoubled ==
    /\ pc = "decoded"
    /\ doubled' \in abstract_elements_by_type(
           <<[vertices |-> ifc_values[1].vertices,
              edges |-> DoublePairs(ifc_values[1].edges)]>>)
    /\ pc' = "done"
    /\ UNCHANGED <<elementLines, permuted, beamResult, columnResult,
                   beamPermuted, columnPermuted, ifc_values, lines_for_type,
                   lines, fs, geometry, beams, columns, written>>

NextDecode == CallAbstract \/ CallAbstractDoubled

SpecDecode == InitDecode /\ [][NextDecode]_vars

-----------------------------------------------------------------------------
(* Claims about the decoder *)

\* the mesh of the element decoded
MeshVertices == ifc_values[1].vertices
MeshEdges == ifc_values[1].edges
MeshPointCount == Len(MeshVertices) \div 3

\* point[i], counted from 0: the i-th consecutive triple of the vertex buffer
MeshPoint(i) ==
    <<MeshVertices[3 * i + 1], MeshVertices[3 * i + 2], MeshVertices[3 * i + 3]>>

\* the ordered index pairs that occur in the edge buffer
MeshPairs ==
    {<<MeshEdges[2 * i - 1], MeshEdges[2 * i]>> : i \in 1..(Len(MeshEdges) \div 2)}

\* buffers of length 3n and 2m with every index in 0..n-1
ValidMesh ==
    /\ Len(MeshVertices) % 3 = 0
    /\ Len(MeshEdges) % 2 = 0
    /\ \A i \in 1..Len(MeshEdges) : 0 <= MeshEdges[i] /\ MeshEdges[i] < MeshPointCount

\* how often x occurs in the list l
Occurrences(l, x) == Cardinality({i \in 1..Len(l) : l[i] = x})

SegmentSet(l) == {l[i] : i \in 1..Len(l)}

\* C3: for a valid mesh the segment list holds exactly one segment
\* (point[a], point[b]) for each distinct ordered pair (a, b) of the edge
\* buffer, so (a, b) and (b, a) are both kept, and the buffer with every
\* pair doubled gives the same segments.
C3_OneSegmentPerDistinctPair ==
    (pc = "done" /\ ValidMesh) =>
        /\ lines_for_type.kind = "return"
        /\ Len(lines_for_type.value[1]) = Cardinality(MeshPairs)
        /\ \A pr \in MeshPairs :
              Occurrences(lines_for_type.value[1], <<MeshPoint(pr[1]), MeshPoint(pr[2])>>)
                = Cardinality({qr \in MeshPairs :
                     <<MeshPoint(qr[1]), MeshPoint(qr[2])>>
                       = <<MeshPoint(pr[1]), MeshPoint(pr[2])>>})
        /\ doubled.kind = "return"
        /\ Len(doubled.value[1]) = Len(lines_for_type.value[1])
        /\ SegmentSet(doubled.value[1]) = SegmentSet(lines_for_type.value[1])

\* a valid mesh with the pairs (a, b) and (b, a) of distinct points, and
\* one pair twice in the doubled buffer, has been decoded
C3_Witness ==
    /\ pc = "done"
    /\ ValidMesh
    /\ \E pr \in MeshPairs :
          /\ <<pr[2], pr[1]>> \in MeshPairs
          /\ MeshPoint(pr[1]) # MeshPoint(pr[2])
    /\ Len(lines_for_type.value[1]) = 2
    /\ Len(doubled.value[1]) = 2

\* C4: the decoder fails with a MalformedMeshError whenever the vertex
\* buffer length is not a multiple of 3, or the edge buffer length is not a
\* multiple of 2, or an index is outside 0..n-1.
C4_MalformedMeshFails ==
    (pc = "done" /\ ~ValidMesh) => lines_for_type = Raise("MalformedMeshError")

-----------------------------------------------------------------------------
(* Specification of writeLines: one call in write mode *)

OutFile == "out.scr"

\* text that a file holds before the run
OldText == <<"o", "l", "d", "\n">>

\* points with int coordinates and with float coordinates
WritePoints ==
    {P(1, 2, 3), P(4, 5, 6),
     <<FloatNum(-1, 1), FloatNum(1, 2), FloatNum(10, 1)>>,
     <<FloatNum(0, 1), FloatNum(9, 4), FloatNum(-15, 2)>>}

WriteSegments == WritePoints \X WritePoints

InitWrite ==
    /\ pc = "start"
    /\ lines \in ListsUpTo(WriteSegments, MaxSegments)
    /\ fs \in [{OutFile} -> {<<>>, OldText}]
    /\ IdealizersIdle /\ DecoderIdle /\ ProcessIdle

CallWriteLines ==
    /\ pc = "start"
    /\ fs' = writeLines(fs, lines, OutFile, "w")
    /\ pc' = "done"
    /\ UNCHANGED <<elementLines, permuted, beamResult, columnResult,
                   beamPermuted, columnPermuted, ifc_values, lines_for_type,
                   doubled, lines, geometry, beams, columns, written>>

SpecWrite == InitWrite /\ [][CallWriteLines]_vars

-----------------------------------------------------------------------------
(* Claims about writeLines *)

\* positions of the newlines of a text
Newlines(text) == {i \in 1..Len(text) : text[i] = "\n"}

\* position of the k-th newline of a text, 0 for k = 0
NewlineAt(text, k) ==
    IF k = 0 THEN 0
    ELSE CHOOSE i \in Newlines(text) :
            Cardinality({j \in Newlines(text) : j < i}) = k - 1

\* the rows of a text that ends with a newline (or is empty): what stands
\* before each newline
Rows(text) ==
    [k \in 1..Cardinality(Newlines(text)) |->
        SubSeq(text, NewlineAt(text, k - 1) + 1, NewlineAt(text, k) - 1)]

\* a text made of whole rows
EndsRows(text) == text = <<>> \/ text[Len(text)] = "\n"

HeaderRow ==
    <<"z", "o", "o", "m", " ", "-", "1", "0", "0", ",", "-", "1", "0", "0", ",",
      "-", "1", "0", "0", " ", "-", "2", "0", "0", ",", "-", "2", "0", "0", ",",
      "-", "2", "0", "0">>

FooterRow == <<"z", "o", "o", "m", " ", "a">>

\* the three coordinates of a point joined by commas
CommaJoined(p) == NumStr(p[1]) \o <<",">> \o NumStr(p[2]) \o <<",">> \o NumStr(p[3])

\* `line x1,y1,z1 x2,y2,z2` and nothing after it
BareLineRow(seg) ==
    <<"l", "i", "n", "e", " ">> \o CommaJoined(seg[1]) \o <<" ">> \o CommaJoined(seg[2])

\* `line x1,y1,z1 x2,y2,z2 `: one space between the last coordinate and the
\* newline
SpacedLineRow(seg) == BareLineRow(seg) \o <<" ">>

WriteExample == <<<<P(1, 2, 3), P(4, 5, 6)>>>>

\* C9 as claimed: n + 2 rows, the header, one row `line x1,y1,z1 x2,y2,z2`
\* per segment in list order with the newline right after the last
\* coordinate, the footer; `line 1,2,3 4,5,6` for [((1,2,3),(4,5,6))].
C9_RowsEndAtLastCoordinate ==
    pc = "done" =>
        /\ EndsRows(fs[OutFile])
        /\ Len(Rows(fs[OutFile])) = Len(lines) + 2
        /\ Rows(fs[OutFile]) =
              <<HeaderRow>> \o [i \in 1..Len(lines) |-> BareLineRow(lines[i])]
                            \o <<FooterRow>>
        /\ (lines = WriteExample =>
              Rows(fs[OutFile])[2] =
                 <<"l", "i", "n", "e", " ", "1", ",", "2", ",", "3", " ",
                   "4", ",", "5", ",", "6">>)

\* C9 amended: as claimed, but every line row ends with one space before
\* its newline; `line 1,2,3 4,5,6 ` for [((1,2,3),(4,5,6))].
C9_RowsEndWithOneSpace ==
    pc = "done" =>
        /\ EndsRows(fs[OutFile])
        /\ Len(Rows(fs[OutFile])) = Len(lines) + 2
        /\ Rows(fs[OutFile]) =
              <<HeaderRow>> \o [i \in 1..Len(lines) |-> SpacedLineRow(lines[i])]
                            \o <<FooterRow>>
        /\ (lines = WriteExample =>
              Rows(fs[OutFile])[2] =
                 <<"l", "i", "n", "e", " ", "1", ",", "2", ",", "3", " ",
                   "4", ",", "5", ",", "6", " ">>)

\* two segments, one with float coordinates, have been written over a file
\* that held text
C9_Witness ==
    /\ pc = "done"
    /\ Len(lines) = 2
    /\ lines[1] = WriteExample[1]
    /\ lines[2][1][2] = FloatNum(1, 2)
    /\ Len(Rows(fs[OutFile])) = 4

-----------------------------------------------------------------------------
(* Specification of process_file *)

ElemFile == "3dModel.scr"
IdealFile == "IdealModel.scr"

F(x, y, z) == <<FloatNum(x, 1), FloatNum(y, 1), FloatNum(z, 1)>>

\* the vertex buffer of a list of points
RECURSIVE Flat(_)
Flat(points) == IF points = <<>> THEN <<>> ELSE Head(points) \o Flat(Tail(points))

Mesh(points, edges) == [vertices |-> Flat(points), edges |-> edges]

\* beams: the top face of a box with one edge given twice; a sloped member
\* with a single top line; a mesh without edges
BeamMeshes ==
    {Mesh(<<F(0, 0, 10), F(4, 0, 10), F(0, 2, 10), F(4, 2, 10)>>,
          <<0, 1, 2, 3, 0, 1>>),
     Mesh(<<F(0, 0, 0), F(0, 0, 3), F(4, 0, 3)>>, <<0, 1, 1, 2>>),
     Mesh(<<F(0, 0, 0)>>, <<>>)}

\* columns: two levels joined by a vertical edge; a single level; a mesh
\* whose edge buffer points past its vertices
ColumnMeshes ==
    {Mesh(<<F(0, 0, 0), F(2, 0, 0), F(0, 0, 5), F(2, 0, 5)>>,
          <<0, 1, 2, 3, 0, 2>>),
     Mesh(<<F(0, 0, 0), F(2, 0, 0)>>, <<0, 1>>),
     Mesh(<<F(0, 0, 0)>>, <<0, 5>>)}

\* read_geom is the geometry kernel: any model file of the bounds
InitProcess ==
    /\ pc = "start"
    /\ geometry \in [IfcBeam : ListsUpTo(BeamMeshes, MaxElements),
                     IfcColumn : ListsUpTo(ColumnMeshes, MaxElements)]
    /\ fs \in [{ElemFile, IdealFile} -> {<<>>, OldText}]
    /\ beams = NoValue /\ columns = NoValue /\ written = 0
    /\ IdealizersIdle /\ DecoderIdle /\ WriterIdle

\* lines 146-151: both types are decoded before a file is opened; an
\* exception of the decoder ends the run
Decode ==
    /\ pc = "start"
    /\ \E b \in abstract_elements_by_type(geometry.IfcBeam),
          c \in abstract_elements_by_type(geometry.IfcColumn) :
          IF b.kind = "raise" \/ c.kind = "raise"
          THEN pc' = "raised" /\ UNCHANGED <<beams, columns>>
          ELSE pc' = "decoded" /\ beams' = b.value /\ columns' = c.value
    /\ UNCHANGED <<elementLines, permuted, beamResult, columnResult,
                   beamPermuted, columnPermuted, ifc_values, lines_for_type,
                   doubled, lines, fs, geometry, written>>

\* lines 153-156: both files are opened in write mode and closed
Truncate ==
    /\ pc = "decoded"
    /\ fs' = [fs EXCEPT ![ElemFile] = <<>>, ![IdealFile] = <<>>]
    /\ pc' = "writing"
    /\ UNCHANGED <<elementLines, permuted, beamResult, columnResult,
                   beamPermuted, columnPermuted, ifc_values, lines_for_type,
                   doubled, lines, geometry, beams, columns, written>>

\* lines 158-163: one pass of the loop over the beams
BeamPass ==
    /\ pc = "writing"
    /\ written < Len(beams)
    /\ LET key       == written + 1
           appended  == writeLines(fs, beams[key], ElemFile, "a")
           idealBeam == idealizeBeam(beams[key])
       IN  IF idealBeam.kind = "raise"
           THEN fs' = appended /\ pc' = "raised" /\ UNCHANGED written
           ELSE /\ fs' = writeLines(appended, <<idealBeam.value>>, IdealFile, "a")
                /\ written' = written + 1
                /\ UNCHANGED pc
    /\ UNCHANGED <<elementLines, permuted, beamResult, columnResult,
                   beamPermuted, columnPermuted, ifc_values, lines_for_type,
                   doubled, lines, geometry, beams, columns>>

\* lines 164-167: one pass of the loop over the columns
ColumnPass ==
    /\ pc = "writing"
    /\ written >= Len(beams)
    /\ written < Len(beams) + Len(columns)
    /\ LET key         == written - Len(beams) + 1
           appended    == writeLines(fs, columns[key], ElemFile, "a")
           idealColumn == idealizeColumn(columns[key])
       IN  IF idealColumn.kind = "raise"
           THEN fs' = appended /\ pc' = "raised" /\ UNCHANGED written
           ELSE /\ fs' = writeLines(appended, <<idealColumn.value>>, IdealFile, "a")
                /\ written' = written + 1
                /\ UNCHANGED pc
    /\ UNCHANGED <<elementLines, permuted, beamResult, columnResult,
                   beamPermuted, columnPermuted, ifc_values, lines_for_type,
                   doubled, lines, geometry, beams, columns>>

NextProcess == Decode \/ Truncate \/ BeamPass \/ ColumnPass

SpecProcess == InitProcess /\ [][NextProcess]_vars

-----------------------------------------------------------------------------
(* Claims about process_file *)

\* process_file has returned: both loops have run to their end
Completed == pc = "writing" /\ written = Len(beams) + Len(columns)

\* number of segments in a list of decoded elements
RECURSIVE SegmentCount(_)
SegmentCount(elements) ==
    IF elements = <<>> THEN 0
    ELSE Len(Head(elements)) + SegmentCount(Tail(elements))

IsLineRow(row) ==
    Len(row) > 5 /\ SubSeq(row, 1, 5) = <<"l", "i", "n", "e", " ">>

\* the header first and nowhere else, the footer last and nowhere else,
\* and n `line` rows between them
WellFormed(text, n) ==
    LET rows == Rows(text)
    IN  /\ EndsRows(text)
        /\ Len(rows) = n + 2
        /\ \A k \in 1..Len(rows) :
              /\ (rows[k] = HeaderRow) = (k = 1)
              /\ (rows[k] = FooterRow) = (k = Len(rows))
              /\ (1 < k /\ k < Len(rows)) => IsLineRow(rows[k])

\* C7: after process_file has completed on at least one element, each
\* file is the header, one `line` row per segment written (every decoded
\* segment in the full file, one per element in the idealized file), the
\* footer, and nothing of what it held before.
C7_OneHeaderOneFooter ==
    (Completed /\ Len(beams) + Len(columns) >= 1) =>
        /\ WellFormed(fs[ElemFile], SegmentCount(beams) + SegmentCount(columns))
        /\ WellFormed(fs[IdealFile], Len(beams) + Len(columns))

\* C8: with no beam and no column process_file completes and each file is
\* the header row followed by the footer row.
C8_EmptyModelGivesHeaderAndFooter ==
    (Completed /\ Len(beams) + Len(columns) = 0) =>
        /\ fs[ElemFile] = HeaderText \o FooterText
        /\ fs[IdealFile] = HeaderText \o FooterText

====
